---------------------------- MODULE Spec2Model ----------------------------
(***************************************************************************)
(* Model of hwctrl.py: the command-processing core of the RaspiCar         *)
(* hardware controller.  A main thread reads command lines and feeds a     *)
(* queue, a pool of workers runs CmdProcessor.process on each command, an  *)
(* output thread drains the responses, and close() shuts the system down.  *)
(*                                                                         *)
(* A text line is a sequence of tokens: the token "," is the comma, every  *)
(* other token is a comma-free piece of text.  An Event object is named by *)
(* the uid of the command whose handler created it (a handler creates at   *)
(* most one); the set `signaled` holds the events whose flag is set.       *)
(* Time is not modelled: a timed wait may return at any moment, and a wait *)
(* on a set event returns at once.                                         *)
(***************************************************************************)
EXTENDS Integers, Sequences, FiniteSets, TLC

(***************************************************************************)
(* Bounds of the model.                                                    *)
(***************************************************************************)
SysWorkers == 1
SysLines == 1
MoveWorkers == 2
MoveLines == 2
BusWorkers == 2
BusLines == 2
LockWorkers == 2
LockLines == 2
ProcWorkers == 1
ProcLines == 1
ShutWorkers == 1
ShutLines == 1
RespWorkers == 2
RespLines == 2

(***************************************************************************)
(* Program constants.                                                      *)
(***************************************************************************)
MaxCloseCount == 15
max_exp_time == 11
exp_unit_time == 175

(***************************************************************************)
(* Input lines.                                                            *)
(***************************************************************************)
LineFwd == <<"1", ",", "move", ",", "fwd", ",", "0.5", ",", "5">>
LineBwd == <<"2", ",", "move", ",", "bwd", ",", "0.3", ",", "1">>
LineStop == <<"3", ",", "move", ",", "stop">>
LineMoveInf == <<"4", ",", "move", ",", "cw", ",", "2", ",", "inf">>
LineMoveBadOp == <<"5", ",", "move", ",", "up", ",", "1", ",", "1">>
LineMoveBadSpeed == <<"5", ",", "move", ",", "fwd", ",", "fast", ",", "1">>
LineMoveNoParams == <<"5", ",", "move">>
LineDist == <<"6", ",", "measure-distance">>
LineColor == <<"7", ",", "detect-color", ",", "1">>
LineColorLong == <<"7", ",", "detect-color", ",", "20">>
LineColorInf == <<"7", ",", "detect-color", ",", "inf">>
LineColorBad == <<"7", ",", "detect-color">>
LineLightLeft == <<"8", ",", "light-eye", ",", "left", ",", "1", ",", "0", ",", "1">>
LineLightRight == <<"8", ",", "light-eye", ",", "right", ",", "0", ",", "1", ",", "0">>
LineLightBoth == <<"9", ",", "light-eye", ",", "both", ",", "1", ",", "1", ",", "0">>
LineLightBadFlag == <<"9", ",", "light-eye", ",", "left", ",", "1", ",", "x", ",", "1">>
LineLightBadEye == <<"9", ",", "light-eye", ",", "middle", ",", "1", ",", "1", ",", "1">>
LineUnknown == <<"10", ",", "beep">>
LineEmpty == <<>>

MoveAlphabet == {LineFwd, LineStop}
BusAlphabet == {LineDist, LineColor, LineColorBad}
ProcAlphabet ==
    {LineFwd, LineStop, LineMoveInf, LineMoveBadOp, LineMoveBadSpeed,
     LineMoveNoParams, LineDist, LineColor, LineColorLong, LineColorInf, LineColorBad,
     LineLightLeft, LineLightRight, LineLightBoth, LineLightBadFlag, LineLightBadEye,
     LineUnknown, LineEmpty}
LockAlphabet == {LineFwd, LineDist, LineColor}
SysAlphabet == {LineFwd, LineColor, LineLightLeft}
ShutAlphabet == {LineFwd}
RespAlphabet == {LineFwd, LineStop, LineMoveBadSpeed, LineUnknown}

(***************************************************************************)
(* Bus payloads the sensors may return.                                    *)
(***************************************************************************)
DistanceData == {<<0, 1, 0>>, <<1, 0, 2>>}
ColorData == {<<0, 1, 0, 2, 0, 3, 0, 0>>, <<1, 0, 255, 255, 0, 0, 0, 9>>}

(***************************************************************************)
(* HwCtrlCmd and HwCtrlResp.                                               *)
(***************************************************************************)
RECURSIVE split(_)
\* str.split(','): the comma-separated fields of a line.
split(s) ==
    IF s = <<>> THEN <<"">>
    ELSE IF Head(s) = "," THEN <<"">> \o split(Tail(s))
    ELSE IF Len(s) = 1 THEN <<Head(s)>>
    ELSE <<Head(s)>> \o split(Tail(Tail(s)))

\* HwCtrlCmd.of; uid is the position of the line in the input stream and names the
\* object, line is the text it was made from (kept for the claims on the output).
HwCtrlCmd_of(cmd, uid) ==
    LET fields == split(cmd)
        num_fields == Len(fields)
    IN  [uid |-> uid, line |-> cmd,
         cmd_no |-> IF num_fields >= 1 THEN fields[1] ELSE "",
         opcode |-> IF num_fields >= 2 THEN fields[2] ELSE "",
         params |-> IF num_fields >= 3 THEN SubSeq(fields, 3, num_fields) ELSE <<>>]

NoCmd == [uid |-> 0, line |-> <<>>, cmd_no |-> "", opcode |-> "", params |-> <<>>]

\* Mutant of HwCtrlResp: the response does not carry the opcode of the command.
HwCtrlResp_NoOpcode(cmd, success, data) ==
    [uid |-> cmd.uid, line |-> cmd.line, cmd_no |-> cmd.cmd_no, opcode |-> "",
     success |-> success, data |-> data]

\* HwCtrlResp(cmd.cmd_no, cmd.opcode, success, data).
HwCtrlResp(cmd, success, data) ==
    [uid |-> cmd.uid, line |-> cmd.line, cmd_no |-> cmd.cmd_no, opcode |-> cmd.opcode,
     success |-> success, data |-> data]

NoResp == [uid |-> 0, line |-> <<>>, cmd_no |-> "", opcode |-> "", success |-> FALSE, data |-> <<>>]

RECURSIVE join_data(_)
join_data(data) ==
    IF data = <<>> THEN <<>> ELSE <<",", Head(data)>> \o join_data(Tail(data))

\* Mutant of HwCtrlResp_str: the success flag comes first.
HwCtrlResp_str_SuccessFirst(r) ==
    <<IF r.success THEN "True" ELSE "False", ",", r.cmd_no, ",", r.opcode>>
        \o join_data(r.data)

\* HwCtrlResp.__str__.
HwCtrlResp_str(r) ==
    <<r.cmd_no, ",", IF r.success THEN "True" ELSE "False", ",", r.opcode>>
        \o join_data(r.data)

(***************************************************************************)
(* Parameter parsing.  A float is held in tenths; inf is its own case.     *)
(***************************************************************************)
MoveOps == {"fwd", "bwd", "cw", "ccw", "stop"}

FloatTable ==
    [t \in {"0", "0.3", "0.5", "1", "2", "5", "11", "20", "-1"} |->
        CASE t = "0" -> 0 [] t = "0.3" -> 3 [] t = "0.5" -> 5 [] t = "1" -> 10
          [] t = "2" -> 20 [] t = "5" -> 50 [] t = "11" -> 110 [] t = "20" -> 200
          [] t = "-1" -> -10]

\* float(s): ok is FALSE where float() raises ValueError.
float(s) ==
    IF s = "inf" THEN [ok |-> TRUE, inf |-> TRUE, tenths |-> 0]
    ELSE IF s \in DOMAIN FloatTable THEN [ok |-> TRUE, inf |-> FALSE, tenths |-> FloatTable[s]]
    ELSE [ok |-> FALSE, inf |-> FALSE, tenths |-> 0]

\* int(s): ok is FALSE where int() raises ValueError.
int(s) ==
    IF s \in {"0", "1", "2"}
    THEN [ok |-> TRUE, val |-> CASE s = "0" -> 0 [] s = "1" -> 1 [] s = "2" -> 2]
    ELSE [ok |-> FALSE, val |-> 0]

Min(a, b) == IF a < b THEN a ELSE b
Max(a, b) == IF a > b THEN a ELSE b

(***************************************************************************)
(* MoveCtrl: the motor outputs.  pwm is the duty cycle in tenths.          *)
(***************************************************************************)
MotorInit == [pwm |-> 0, lhs_phase |-> FALSE, rhs_phase |-> FALSE]

MoveCtrl_stop(m) == [m EXCEPT !.pwm = 0]

MoveCtrl_move(m, move_op, speed) ==
    LET s == Min(10, Max(speed, 0))
    IN  CASE move_op = "fwd" -> [pwm |-> s, lhs_phase |-> FALSE, rhs_phase |-> FALSE]
          [] move_op = "bwd" -> [pwm |-> s, lhs_phase |-> TRUE, rhs_phase |-> TRUE]
          [] move_op = "cw" -> [pwm |-> s, lhs_phase |-> FALSE, rhs_phase |-> TRUE]
          [] move_op = "ccw" -> [pwm |-> s, lhs_phase |-> TRUE, rhs_phase |-> FALSE]
          [] OTHER -> MoveCtrl_stop(m)

EyeOff == [red |-> FALSE, green |-> FALSE, blue |-> FALSE]

VARIABLES
    num_read,           \* the number of command lines read so far
    pcMain,             \* main thread: "read", "close", "release", "join", "done"
    count,              \* CmdProcessor.close: its loop counter
    is_terminated,
    cmd_fifo, resp_fifo,
    stdout_echo,        \* per command: the lines written that echo its cmd_no and opcode
    stdout_other,       \* the lines written that do not echo their command
    pcOut,              \* output thread: "loop", "get", "exit"
    pc, cur, resp,      \* per worker: position, command held, response computed
    num_moved,          \* per worker: the local num_times_moved of __move_raspicar
    failure,            \* history, per worker: its command took an except clause or found no handler
    num_times_moved, move_event, get_color_event, signaled,
    integ_reg,          \* the integration-time register of the color sensor, as last written
    exp_wait,           \* per worker: the timeout of its exposure wait, in hundredths of a second
    i2c_lock, color_sensor_lock, move_lock,
    activeCmds,
    motor, right_eye, left_eye, i2c_open,
    motor_gen,          \* history: value of num_times_moved held by the last handler that commanded the motor
    last_gen_op,        \* history: what made the last increment of num_times_moved
    driver_raised       \* history: a call of the motor driver has raised an exception

vars == <<num_read, pcMain, count, is_terminated, cmd_fifo, resp_fifo,
          stdout_echo, stdout_other,
          pcOut, pc, cur, resp, num_moved, failure, num_times_moved, move_event,
          get_color_event, signaled, integ_reg, exp_wait,
          i2c_lock, color_sensor_lock, move_lock,
          activeCmds, motor, right_eye, left_eye, i2c_open, motor_gen, last_gen_op,
          driver_raised>>

mainVars == <<num_read, pcMain, count, is_terminated>>
stdout == <<stdout_echo, stdout_other>>
workerVars == <<pc, cur, resp, num_moved, failure>>
moveVars == <<num_times_moved, move_event, motor, motor_gen, last_gen_op, driver_raised>>
lockVars == <<i2c_lock, color_sensor_lock, move_lock>>
lampVars == <<right_eye, left_eye>>
sensorVars == <<integ_reg, exp_wait>>

Workers == DOMAIN pc

InitWith(n) ==
    /\ num_read = 0
    /\ pcMain = "read"
    /\ count = 0
    /\ is_terminated = FALSE
    /\ cmd_fifo = <<>>
    /\ resp_fifo = <<>>
    /\ stdout_echo = <<>>
    /\ stdout_other = 0
    /\ pcOut = "loop"
    /\ pc = [w \in 1..n |-> "loop"]
    /\ cur = [w \in 1..n |-> NoCmd]
    /\ resp = [w \in 1..n |-> NoResp]
    /\ num_moved = [w \in 1..n |-> 0]
    /\ failure = [w \in 1..n |-> FALSE]
    /\ num_times_moved = 0
    /\ move_event = 0
    /\ get_color_event = 0
    /\ integ_reg = 0
    /\ exp_wait = [w \in 1..n |-> 0]
    /\ signaled = {}
    /\ i2c_lock = 0
    /\ color_sensor_lock = 0
    /\ move_lock = 0
    /\ activeCmds = {}
    /\ motor = MotorInit
    /\ right_eye = EyeOff
    /\ left_eye = EyeOff
    /\ i2c_open = TRUE
    /\ motor_gen = 0
    /\ last_gen_op = "none"
    /\ driver_raised = FALSE

(***************************************************************************)
(* main and close.                                                         *)
(***************************************************************************)
\* main: one iteration of `for line in sys.stdin` on a command line.
ReadFrom(alphabet, max) ==
    /\ pcMain = "read"
    /\ num_read < max
    /\ num_read' = num_read + 1
    /\ stdout_echo' = Append(stdout_echo, 0)
    /\ \E line \in alphabet :
          cmd_fifo' = Append(cmd_fifo, HwCtrlCmd_of(line, num_read + 1))
    /\ UNCHANGED <<pcMain, count, is_terminated, resp_fifo, stdout_other, pcOut,
                   workerVars, moveVars, get_color_event, sensorVars, signaled, lockVars,
                   activeCmds, lampVars, i2c_open>>

\* main: the line 'terminate', the end of the input or SIGTERM; close() sets the flag.
Terminate ==
    /\ pcMain = "read"
    /\ pcMain' = "close"
    /\ is_terminated' = TRUE
    /\ count' = 0
    /\ UNCHANGED <<num_read, cmd_fifo, resp_fifo, stdout, pcOut, workerVars,
                   moveVars, get_color_event, sensorVars, signaled, lockVars, activeCmds,
                   lampVars, i2c_open>>

\* Mutant of cancel_move: the installed event is never set.
cancel_move_Nothing == {}

\* __cancel_move and __cancel_color_detection: the events they set.
cancel_move == IF move_event # 0 THEN {move_event} ELSE {}
cancel_color_detection == IF get_color_event # 0 THEN {get_color_event} ELSE {}

\* CmdProcessor.close: one test of the while condition and, if it holds, one iteration.
CloseLoop ==
    /\ pcMain = "close"
    /\ IF activeCmds # {} /\ count < MaxCloseCount
       THEN /\ count' = count + 1
            /\ signaled' = signaled \cup cancel_move \cup cancel_color_detection
            /\ UNCHANGED pcMain
       ELSE /\ pcMain' = "release"
            /\ UNCHANGED <<count, signaled>>
    /\ UNCHANGED <<num_read, is_terminated, cmd_fifo, resp_fifo, stdout, pcOut,
                   workerVars, moveVars, get_color_event, sensorVars, lockVars, activeCmds,
                   lampVars, i2c_open>>

\* CmdProcessor.close: the lamps the loop over the LEDs turns off, then i2c1.close().
CloseLampsOff == [right |-> EyeOff, left |-> left_eye]

CloseRelease ==
    /\ pcMain = "release"
    /\ right_eye' = CloseLampsOff.right
    /\ left_eye' = CloseLampsOff.left
    /\ i2c_open' = FALSE
    /\ pcMain' = "join"
    /\ UNCHANGED <<num_read, count, is_terminated, cmd_fifo, resp_fifo, stdout,
                   pcOut, workerVars, moveVars, get_color_event, sensorVars, signaled, lockVars,
                   activeCmds>>

\* close: future.result() of every worker and of the output thread.
Join ==
    /\ pcMain = "join"
    /\ \A w \in Workers : pc[w] \in {"exit", "raised"}
    /\ pcOut = "exit"
    /\ pcMain' = "done"
    /\ UNCHANGED <<num_read, count, is_terminated, cmd_fifo, resp_fifo, stdout,
                   pcOut, workerVars, moveVars, get_color_event, sensorVars, signaled, lockVars,
                   activeCmds, lampVars, i2c_open>>

(***************************************************************************)
(* output_fifo_elems.                                                      *)
(***************************************************************************)
\* Whether the response line `out` carries the sequence_id and the opcode of the
\* command line `inp` (its first and second fields, "" when missing), as the
\* response line protocol places them: sequence_id,success,opcode,data...
Echoes(out, inp) ==
    LET o == split(out)
        i == split(inp)
    IN  /\ Len(o) >= 3
        /\ o[1] = i[1]
        /\ o[2] \in {"True", "False"}
        /\ o[3] = (IF Len(i) >= 2 THEN i[2] ELSE "")

\* Mutant of WhileNotTerminated: the loop never looks at the flag.
WhileNotTerminated_Forever == "get"

\* `while not is_terminated:` of process_cmds and of output_fifo_elems: where the
\* test leads.
WhileNotTerminated == IF is_terminated THEN "exit" ELSE "get"

OutCheck ==
    /\ pcOut = "loop"
    /\ pcOut' = WhileNotTerminated
    /\ UNCHANGED <<mainVars, cmd_fifo, resp_fifo, stdout, workerVars, moveVars,
                   get_color_event, sensorVars, signaled, lockVars, activeCmds, lampVars, i2c_open>>

OutGet ==
    /\ pcOut = "get"
    /\ pcOut' = "loop"
    /\ IF resp_fifo # <<>>
       THEN /\ resp_fifo' = Tail(resp_fifo)
            /\ IF Echoes(HwCtrlResp_str(Head(resp_fifo)), Head(resp_fifo).line)
               THEN /\ stdout_echo' = [stdout_echo EXCEPT ![Head(resp_fifo).uid] = @ + 1]
                    /\ UNCHANGED stdout_other
               ELSE /\ stdout_other' = stdout_other + 1
                    /\ UNCHANGED stdout_echo
       ELSE UNCHANGED <<stdout, resp_fifo>>
    /\ UNCHANGED <<mainVars, cmd_fifo, workerVars, moveVars, get_color_event, sensorVars,
                   signaled, lockVars, activeCmds, lampVars, i2c_open>>

(***************************************************************************)
(* process_cmds.                                                           *)
(***************************************************************************)
WorkerCheck(w) ==
    /\ pc[w] = "loop"
    /\ pc' = [pc EXCEPT ![w] = WhileNotTerminated]
    /\ UNCHANGED <<mainVars, cmd_fifo, resp_fifo, stdout, pcOut, cur, resp, failure,
                   num_moved, moveVars, get_color_event, sensorVars, signaled, lockVars,
                   activeCmds, lampVars, i2c_open>>

WorkerGet(w) ==
    /\ pc[w] = "get"
    /\ IF cmd_fifo # <<>>
       THEN /\ cur' = [cur EXCEPT ![w] = Head(cmd_fifo)]
            /\ cmd_fifo' = Tail(cmd_fifo)
            /\ pc' = [pc EXCEPT ![w] = "process"]
       ELSE /\ pc' = [pc EXCEPT ![w] = "loop"]
            /\ UNCHANGED <<cur, cmd_fifo>>
    /\ UNCHANGED <<mainVars, resp_fifo, stdout, pcOut, resp, failure, num_moved, moveVars,
                   get_color_event, sensorVars, signaled, lockVars, activeCmds, lampVars, i2c_open>>

\* resp_fifo.put(resp), and back to the loop test.
WorkerPut(w) ==
    /\ pc[w] = "put"
    /\ resp_fifo' = Append(resp_fifo, resp[w])
    /\ pc' = [pc EXCEPT ![w] = "loop"]
    /\ cur' = [cur EXCEPT ![w] = NoCmd]
    /\ resp' = [resp EXCEPT ![w] = NoResp]
    /\ failure' = [failure EXCEPT ![w] = FALSE]
    /\ num_moved' = [num_moved EXCEPT ![w] = 0]
    /\ exp_wait' = [exp_wait EXCEPT ![w] = 0]
    /\ UNCHANGED <<mainVars, cmd_fifo, stdout, pcOut, moveVars, get_color_event, integ_reg,
                   signaled, lockVars, activeCmds, lampVars, i2c_open>>


(***************************************************************************)
(* CmdProcessor.process and __move.                                        *)
(***************************************************************************)
\* __move: what parsing the parameters leads to ("error": an exception).
MoveParse(cmd) ==
    IF Len(cmd.params) < 1 \/ cmd.params[1] \notin MoveOps THEN "error"
    ELSE IF cmd.params[1] = "stop" THEN "stop"
    ELSE IF Len(cmd.params) < 3 THEN "error"
    ELSE IF ~float(cmd.params[2]).ok \/ ~float(cmd.params[3]).ok THEN "error"
    ELSE "move"

\* Mutant of MoveExcept: the exception leaves __move and process.
MoveExcept_Propagates(cmd) == [pc |-> "raised", resp |-> NoResp, failure |-> TRUE]

\* __move: `except Exception: pass`, then the response with success = False.
MoveExcept(cmd) ==
    [pc |-> "finally", resp |-> HwCtrlResp(cmd, FALSE, <<>>), failure |-> TRUE]

\* __detect_color: `except Exception`, the color lock released by `finally`.
DetectColorExcept(cmd) ==
    [pc |-> "finally", resp |-> HwCtrlResp(cmd, FALSE, <<>>), failure |-> TRUE]

\* The entry of a handler.
Enter(at) == [pc |-> at, resp |-> NoResp, failure |-> FALSE]

\* process: the handler an opcode is routed to; no handler leaves the final return.
Route(cmd) ==
    CASE cmd.opcode = "detect-color" -> Enter("dc_lock")
      [] cmd.opcode = "move" ->
            CASE MoveParse(cmd) = "stop" -> Enter("stop_lock")
              [] MoveParse(cmd) = "move" -> Enter("mv_lock")
              [] OTHER -> MoveExcept(cmd)
      [] cmd.opcode = "measure-distance" -> Enter("md_lock")
      [] cmd.opcode = "light-eye" -> Enter("le")
      [] OTHER -> [pc |-> "finally", resp |-> HwCtrlResp(cmd, FALSE, <<>>),
                   failure |-> TRUE]

\* process: activeCmds.add(cmd) and the dispatch on the opcode.
ProcessEnter(w) ==
    /\ pc[w] = "process"
    /\ activeCmds' = activeCmds \cup {cur[w].uid}
    /\ pc' = [pc EXCEPT ![w] = Route(cur[w]).pc]
    /\ resp' = [resp EXCEPT ![w] = Route(cur[w]).resp]
    /\ failure' = [failure EXCEPT ![w] = Route(cur[w]).failure]
    /\ UNCHANGED <<mainVars, cmd_fifo, resp_fifo, stdout, pcOut, cur, num_moved,
                   moveVars, get_color_event, sensorVars, signaled, lockVars, lampVars, i2c_open>>

\* process: `finally: activeCmds.remove(cmd)` and the return of the response.
ProcessFinally(w) ==
    /\ pc[w] = "finally"
    /\ activeCmds' = activeCmds \ {cur[w].uid}
    /\ pc' = [pc EXCEPT ![w] = "put"]
    /\ UNCHANGED <<mainVars, cmd_fifo, resp_fifo, stdout, pcOut, cur, resp, failure,
                   num_moved, moveVars, get_color_event, sensorVars, signaled, lockVars,
                   lampVars, i2c_open>>

(***************************************************************************)
(* __move_raspicar and __stop_raspicar.                                    *)
(***************************************************************************)
\* Mutant of Incremented: the counter wraps at 2.
Incremented_Wraps(n) == (n + 1) % 2

\* `self.__num_times_moved += 1`.
Incremented(n) == n + 1

\* move_lock.acquire() of the first critical section.
MoveAcquire(w) ==
    /\ pc[w] = "mv_lock"
    /\ move_lock = 0
    /\ move_lock' = w
    /\ pc' = [pc EXCEPT ![w] = "mv_start"]
    /\ UNCHANGED <<mainVars, cmd_fifo, resp_fifo, stdout, pcOut, cur, resp, failure,
                   num_moved, moveVars, get_color_event, sensorVars, signaled, i2c_lock,
                   color_sensor_lock, activeCmds, lampVars, i2c_open>>

\* Mutant of MoveLockReleased: the Move keeps the move lock over its wait.
MoveLockReleased_Kept(w) == w

\* `finally: self.__move_lock.release()` of the first critical section: the holder
\* it leaves.
MoveLockReleased(w) == 0

\* Mutant of InstalledEvent: the Move leaves the previous event installed.
InstalledEvent_Previous(w) == move_event

\* `self.__move_event = event`: the event the Move installs, its own.
InstalledEvent(w) == cur[w].uid

\* The first critical section; hw_ok is FALSE when the motor driver raises.
MoveStart(w) ==
    /\ pc[w] = "mv_start"
    /\ num_times_moved' = Incremented(num_times_moved)
    /\ num_moved' = [num_moved EXCEPT ![w] = num_times_moved']
    /\ move_lock' = MoveLockReleased(w)
    /\ \E hw_ok \in BOOLEAN :
          IF hw_ok
          THEN /\ motor' = MoveCtrl_move(motor, cur[w].params[1],
                                         float(cur[w].params[2]).tenths)
               /\ signaled' = signaled \cup cancel_move
               /\ move_event' = InstalledEvent(w)
               /\ motor_gen' = num_times_moved'
               /\ last_gen_op' = "move"
               /\ UNCHANGED driver_raised
               /\ pc' = [pc EXCEPT ![w] = "mv_wait"]
               /\ UNCHANGED <<resp, failure>>
          ELSE /\ resp' = [resp EXCEPT ![w] = HwCtrlResp(cur[w], FALSE, <<>>)]
               /\ failure' = [failure EXCEPT ![w] = TRUE]
               /\ last_gen_op' = "move_failed"
               /\ driver_raised' = TRUE
               /\ pc' = [pc EXCEPT ![w] = "finally"]
               /\ UNCHANGED <<motor, signaled, move_event, motor_gen>>
    /\ UNCHANGED <<mainVars, cmd_fifo, resp_fifo, stdout, pcOut, cur,
                   get_color_event, sensorVars, i2c_lock, color_sensor_lock, activeCmds,
                   lampVars, i2c_open>>

\* event.wait(time): returns on the timeout or on the event; on an event that is
\* not set yet it raises OverflowError for inf.
MoveWait(w) ==
    /\ pc[w] = "mv_wait"
    /\ IF float(cur[w].params[3]).inf /\ cur[w].uid \notin signaled
       THEN /\ pc' = [pc EXCEPT ![w] = MoveExcept(cur[w]).pc]
            /\ resp' = [resp EXCEPT ![w] = MoveExcept(cur[w]).resp]
            /\ failure' = [failure EXCEPT ![w] = MoveExcept(cur[w]).failure]
       ELSE /\ pc' = [pc EXCEPT ![w] = "mv_lock2"]
            /\ UNCHANGED <<resp, failure>>
    /\ UNCHANGED <<mainVars, cmd_fifo, resp_fifo, stdout, pcOut, cur, num_moved,
                   moveVars, get_color_event, sensorVars, signaled, lockVars, activeCmds,
                   lampVars, i2c_open>>

\* move_lock.acquire() of the second critical section.
MoveReacquire(w) ==
    /\ pc[w] = "mv_lock2"
    /\ move_lock = 0
    /\ move_lock' = w
    /\ pc' = [pc EXCEPT ![w] = "mv_end"]
    /\ UNCHANGED <<mainVars, cmd_fifo, resp_fifo, stdout, pcOut, cur, resp, failure,
                   num_moved, moveVars, get_color_event, sensorVars, signaled, i2c_lock,
                   color_sensor_lock, activeCmds, lampVars, i2c_open>>

\* Mutant of OwnsTerminalStop: the handler stops the motor whatever the counter says.
OwnsTerminalStop_Always(w) == TRUE

\* The test after the wait: TRUE when this handler is to stop the motor.
OwnsTerminalStop(w) == num_moved[w] = num_times_moved

\* The second critical section.
MoveEnd(w) ==
    /\ pc[w] = "mv_end"
    /\ move_lock' = 0
    /\ pc' = [pc EXCEPT ![w] = "finally"]
    /\ IF ~OwnsTerminalStop(w)
       THEN /\ resp' = [resp EXCEPT ![w] = HwCtrlResp(cur[w], TRUE, <<>>)]
            /\ UNCHANGED <<failure, motor, motor_gen, driver_raised>>
       ELSE \E hw_ok \in BOOLEAN :
               IF hw_ok
               THEN /\ motor' = MoveCtrl_stop(motor)
                    /\ motor_gen' = num_moved[w]
                    /\ resp' = [resp EXCEPT ![w] = HwCtrlResp(cur[w], TRUE, <<>>)]
                    /\ UNCHANGED <<failure, driver_raised>>
               ELSE /\ resp' = [resp EXCEPT ![w] = HwCtrlResp(cur[w], FALSE, <<>>)]
                    /\ failure' = [failure EXCEPT ![w] = TRUE]
                    /\ driver_raised' = TRUE
                    /\ UNCHANGED <<motor, motor_gen>>
    /\ UNCHANGED <<mainVars, cmd_fifo, resp_fifo, stdout, pcOut, cur, num_moved,
                   num_times_moved, move_event, last_gen_op, get_color_event, sensorVars,
                   signaled, i2c_lock, color_sensor_lock, activeCmds, lampVars,
                   i2c_open>>

StopAcquire(w) ==
    /\ pc[w] = "stop_lock"
    /\ move_lock = 0
    /\ move_lock' = w
    /\ pc' = [pc EXCEPT ![w] = "stop_run"]
    /\ UNCHANGED <<mainVars, cmd_fifo, resp_fifo, stdout, pcOut, cur, resp, failure,
                   num_moved, moveVars, get_color_event, sensorVars, signaled, i2c_lock,
                   color_sensor_lock, activeCmds, lampVars, i2c_open>>

\* __stop_raspicar: its critical section.
StopRun(w) ==
    /\ pc[w] = "stop_run"
    /\ num_times_moved' = Incremented(num_times_moved)
    /\ move_lock' = 0
    /\ pc' = [pc EXCEPT ![w] = "finally"]
    /\ \E hw_ok \in BOOLEAN :
          IF hw_ok
          THEN /\ motor' = MoveCtrl_stop(motor)
               /\ signaled' = signaled \cup cancel_move
               /\ motor_gen' = num_times_moved'
               /\ last_gen_op' = "stop"
               /\ UNCHANGED driver_raised
               /\ resp' = [resp EXCEPT ![w] = HwCtrlResp(cur[w], TRUE, <<>>)]
               /\ UNCHANGED failure
          ELSE /\ resp' = [resp EXCEPT ![w] = HwCtrlResp(cur[w], FALSE, <<>>)]
               /\ failure' = [failure EXCEPT ![w] = TRUE]
               /\ last_gen_op' = "stop_failed"
               /\ driver_raised' = TRUE
               /\ UNCHANGED <<motor, signaled, motor_gen>>
    /\ UNCHANGED <<mainVars, cmd_fifo, resp_fifo, stdout, pcOut, cur, num_moved,
                   move_event, get_color_event, sensorVars, i2c_lock, color_sensor_lock,
                   activeCmds, lampVars, i2c_open>>

(***************************************************************************)
(* __detect_color and __get_color_sensor_val.                              *)
(***************************************************************************)
\* float(cmd.params[0]): FALSE where it raises IndexError or ValueError.
ColorParseOk(cmd) == Len(cmd.params) >= 1 /\ float(cmd.params[1]).ok

\* Mutant of ColorLockReleased: __detect_color returns with the color lock held.
ColorLockReleased_Kept(w) == w

\* `finally: self.__color_sensor_lock.release()`: the holder it leaves.
ColorLockReleased(w) == 0

\* `max(0, min(exp_time, max_exp_time))`, in tenths of a second.
clamped(exp_time) ==
    IF exp_time.inf THEN max_exp_time * 10
    ELSE Max(0, Min(exp_time.tenths, max_exp_time * 10))

\* `int(exp_time_us / exp_unit_time)`, the value written to the integration-time
\* register: exp_time_us is the clamped exposure in microseconds.
integ_val(exp_time) == (clamped(exp_time) * 100000) \div exp_unit_time

\* `(4 * exp_time) * 1.05`, the timeout of the exposure wait, in hundredths of a
\* second, for a finite exp_time.
wait_timeout(exp_time) == 42 * exp_time.tenths

\* color_sensor_lock.acquire(), then the parse of the exposure time; a parse error
\* goes to the except clause and `finally` releases the lock.
ColorAcquire(w) ==
    /\ pc[w] = "dc_lock"
    /\ color_sensor_lock = 0
    /\ IF ColorParseOk(cur[w])
       THEN /\ color_sensor_lock' = w
            /\ pc' = [pc EXCEPT ![w] = "dc_bus"]
            /\ UNCHANGED <<resp, failure>>
       ELSE /\ color_sensor_lock' = ColorLockReleased(w)
            /\ pc' = [pc EXCEPT ![w] = DetectColorExcept(cur[w]).pc]
            /\ resp' = [resp EXCEPT ![w] = DetectColorExcept(cur[w]).resp]
            /\ failure' = [failure EXCEPT ![w] = DetectColorExcept(cur[w]).failure]
    /\ UNCHANGED <<mainVars, cmd_fifo, resp_fifo, stdout, pcOut, cur, num_moved,
                   moveVars, get_color_event, sensorVars, signaled, i2c_lock, move_lock,
                   activeCmds, lampVars, i2c_open>>

\* Mutant of BusLockFree: the bus lock excludes nobody.
BusLockFree_Always == TRUE

\* Threading.Lock.acquire of the bus lock: TRUE when the caller may take it.
BusLockFree == i2c_lock = 0

\* i2c_lock.acquire() before the write burst.
ColorBusAcquire(w) ==
    /\ pc[w] = "dc_bus"
    /\ BusLockFree
    /\ i2c_lock' = w
    /\ pc' = [pc EXCEPT ![w] = "dc_write"]
    /\ UNCHANGED <<mainVars, cmd_fifo, resp_fifo, stdout, pcOut, cur, resp, failure,
                   num_moved, moveVars, get_color_event, sensorVars, signaled,
                   color_sensor_lock, move_lock, activeCmds, lampVars, i2c_open>>

\* Mutant of BusLockReleased: the write burst keeps the bus lock.
BusLockReleased_Kept(w) == w

\* `finally: self.i2c_lock.release()` after the write burst: the holder it leaves.
BusLockReleased(w) == 0

\* The four register writes and the installation of the event; hw_ok is FALSE when
\* a write raises (always, once the bus is closed): the result is [] and
\* __detect_color answers failure, releasing the color lock.
ColorWrite(w) ==
    /\ pc[w] = "dc_write"
    /\ i2c_lock' = BusLockReleased(w)
    /\ \E hw_ok \in (IF i2c_open THEN BOOLEAN ELSE {FALSE}) :
          IF hw_ok
          THEN /\ integ_reg' = integ_val(float(cur[w].params[1]))
               /\ get_color_event' = cur[w].uid
               /\ pc' = [pc EXCEPT ![w] = "dc_wait"]
               /\ UNCHANGED <<resp, failure, color_sensor_lock>>
          ELSE /\ resp' = [resp EXCEPT ![w] = HwCtrlResp(cur[w], FALSE, <<>>)]
               /\ failure' = [failure EXCEPT ![w] = TRUE]
               /\ color_sensor_lock' = ColorLockReleased(w)
               /\ pc' = [pc EXCEPT ![w] = "finally"]
               /\ UNCHANGED <<get_color_event, integ_reg>>
    /\ UNCHANGED <<mainVars, cmd_fifo, resp_fifo, stdout, pcOut, cur, num_moved,
                   moveVars, signaled, exp_wait, move_lock, activeCmds, lampVars,
                   i2c_open>>

\* Mutant of AfterColorWait: a cancelled wait makes the handler return.
AfterColorWait_Aborts(cancelled) == IF cancelled THEN "finally" ELSE "dc_bus2"

\* The statement after event.wait, whose result is not looked at: the second
\* bus-locked section, whether the wait was cancelled or timed out.
AfterColorWait(cancelled) == "dc_bus2"

\* event.wait((4 * exp_time) * 1.05): returns on the timeout or on the event; on an
\* event that is not set yet it raises OverflowError for inf, which __detect_color
\* catches.
ColorWait(w) ==
    /\ pc[w] = "dc_wait"
    /\ IF float(cur[w].params[1]).inf /\ cur[w].uid \notin signaled
       THEN /\ pc' = [pc EXCEPT ![w] = DetectColorExcept(cur[w]).pc]
            /\ resp' = [resp EXCEPT ![w] = DetectColorExcept(cur[w]).resp]
            /\ failure' = [failure EXCEPT ![w] = DetectColorExcept(cur[w]).failure]
            /\ color_sensor_lock' = ColorLockReleased(w)
            /\ UNCHANGED exp_wait
       ELSE /\ pc' = [pc EXCEPT ![w] = AfterColorWait(cur[w].uid \in signaled)]
            /\ exp_wait' = [exp_wait EXCEPT ![w] = wait_timeout(float(cur[w].params[1]))]
            /\ UNCHANGED <<resp, failure, color_sensor_lock>>
    /\ UNCHANGED <<mainVars, cmd_fifo, resp_fifo, stdout, pcOut, cur, num_moved,
                   moveVars, get_color_event, integ_reg, signaled, i2c_lock, move_lock,
                   activeCmds, lampVars, i2c_open>>

\* i2c_lock.acquire() before the read.
ColorBusReacquire(w) ==
    /\ pc[w] = "dc_bus2"
    /\ BusLockFree
    /\ i2c_lock' = w
    /\ pc' = [pc EXCEPT ![w] = "dc_read"]
    /\ UNCHANGED <<mainVars, cmd_fifo, resp_fifo, stdout, pcOut, cur, resp, failure,
                   num_moved, moveVars, get_color_event, sensorVars, signaled,
                   color_sensor_lock, move_lock, activeCmds, lampVars, i2c_open>>

\* The three 16-bit values of an 8-byte block, as decimal strings.
ColorStrings(color_vals) ==
    <<ToString(color_vals[1] * 256 + color_vals[2]),
      ToString(color_vals[3] * 256 + color_vals[4]),
      ToString(color_vals[5] * 256 + color_vals[6])>>

\* The block read and the response of __detect_color; both locks are released.
ColorRead(w) ==
    /\ pc[w] = "dc_read"
    /\ i2c_lock' = 0
    /\ color_sensor_lock' = ColorLockReleased(w)
    /\ pc' = [pc EXCEPT ![w] = "finally"]
    /\ \/ /\ i2c_open
          /\ \E color_vals \in ColorData :
                /\ resp' = [resp EXCEPT ![w] = HwCtrlResp(cur[w], TRUE, ColorStrings(color_vals))]
                /\ UNCHANGED failure
       \/ /\ resp' = [resp EXCEPT ![w] = HwCtrlResp(cur[w], FALSE, <<>>)]
          /\ failure' = [failure EXCEPT ![w] = TRUE]
    /\ UNCHANGED <<mainVars, cmd_fifo, resp_fifo, stdout, pcOut, cur, num_moved,
                   moveVars, get_color_event, sensorVars, signaled, move_lock, activeCmds,
                   lampVars, i2c_open>>

(***************************************************************************)
(* __measure_distance.                                                     *)
(***************************************************************************)
DistAcquire(w) ==
    /\ pc[w] = "md_lock"
    /\ BusLockFree
    /\ i2c_lock' = w
    /\ pc' = [pc EXCEPT ![w] = "md_write"]
    /\ UNCHANGED <<mainVars, cmd_fifo, resp_fifo, stdout, pcOut, cur, resp, failure,
                   num_moved, moveVars, get_color_event, sensorVars, signaled,
                   color_sensor_lock, move_lock, activeCmds, lampVars, i2c_open>>

\* write_byte, the start of a measurement; the settle delay follows under the lock.
DistWrite(w) ==
    /\ pc[w] = "md_write"
    /\ \E hw_ok \in (IF i2c_open THEN BOOLEAN ELSE {FALSE}) :
          IF hw_ok
          THEN /\ pc' = [pc EXCEPT ![w] = "md_read"]
               /\ UNCHANGED <<resp, failure, i2c_lock>>
          ELSE /\ resp' = [resp EXCEPT ![w] = HwCtrlResp(cur[w], FALSE, <<>>)]
               /\ failure' = [failure EXCEPT ![w] = TRUE]
               /\ i2c_lock' = 0
               /\ pc' = [pc EXCEPT ![w] = "finally"]
    /\ UNCHANGED <<mainVars, cmd_fifo, resp_fifo, stdout, pcOut, cur, num_moved,
                   moveVars, get_color_event, sensorVars, signaled, color_sensor_lock,
                   move_lock, activeCmds, lampVars, i2c_open>>

\* The 24-bit distance of a 3-byte block, as a decimal string.
DistanceString(data) == ToString(data[1] * 65536 + data[2] * 256 + data[3])

\* sleep(0.2), the block read and the response; the bus lock is released.
DistRead(w) ==
    /\ pc[w] = "md_read"
    /\ i2c_lock' = 0
    /\ pc' = [pc EXCEPT ![w] = "finally"]
    /\ \/ /\ i2c_open
          /\ \E data \in DistanceData :
                /\ resp' = [resp EXCEPT ![w] = HwCtrlResp(cur[w], TRUE, <<DistanceString(data)>>)]
                /\ UNCHANGED failure
       \/ /\ resp' = [resp EXCEPT ![w] = HwCtrlResp(cur[w], FALSE, <<>>)]
          /\ failure' = [failure EXCEPT ![w] = TRUE]
    /\ UNCHANGED <<mainVars, cmd_fifo, resp_fifo, stdout, pcOut, cur, num_moved,
                   moveVars, get_color_event, sensorVars, signaled, color_sensor_lock,
                   move_lock, activeCmds, lampVars, i2c_open>>

(***************************************************************************)
(* __light_eye.                                                            *)
(***************************************************************************)
\* The four parameters parse: FALSE where an IndexError or a ValueError is raised.
LightParseOk(cmd) ==
    /\ Len(cmd.params) >= 4
    /\ \A i \in 2..4 : int(cmd.params[i]).ok

\* Mutant of LightFlags: the red and the green flag change places.
LightFlags_Swapped(cmd) ==
    [red |-> int(cmd.params[3]).val # 0,
     green |-> int(cmd.params[2]).val # 0,
     blue |-> int(cmd.params[4]).val # 0]

\* The flags as the lamp states __light_leds sets.
LightFlags(cmd) ==
    [red |-> int(cmd.params[2]).val # 0,
     green |-> int(cmd.params[3]).val # 0,
     blue |-> int(cmd.params[4]).val # 0]

\* The whole handler; hw_ok is FALSE when the first lamp output raises.
LightEye(w) ==
    /\ pc[w] = "le"
    /\ pc' = [pc EXCEPT ![w] = "finally"]
    /\ IF ~LightParseOk(cur[w])
       THEN /\ resp' = [resp EXCEPT ![w] = HwCtrlResp(cur[w], FALSE, <<>>)]
            /\ failure' = [failure EXCEPT ![w] = TRUE]
            /\ UNCHANGED lampVars
       ELSE \E hw_ok \in BOOLEAN :
               IF hw_ok
               THEN /\ left_eye' = IF cur[w].params[1] \in {"left", "both"}
                                   THEN LightFlags(cur[w]) ELSE left_eye
                    /\ right_eye' = IF cur[w].params[1] \in {"right", "both"}
                                    THEN LightFlags(cur[w]) ELSE right_eye
                    /\ resp' = [resp EXCEPT ![w] = HwCtrlResp(cur[w], TRUE, <<>>)]
                    /\ UNCHANGED failure
               ELSE /\ resp' = [resp EXCEPT ![w] = HwCtrlResp(cur[w], FALSE, <<>>)]
                    /\ failure' = [failure EXCEPT ![w] = TRUE]
                    /\ UNCHANGED lampVars
    /\ UNCHANGED <<mainVars, cmd_fifo, resp_fifo, stdout, pcOut, cur, num_moved,
                   moveVars, get_color_event, sensorVars, signaled, lockVars, activeCmds,
                   i2c_open>>

(***************************************************************************)
(* The worker pool on Move and Stop commands alone, without shutdown.      *)
(***************************************************************************)
InitMove == InitWith(MoveWorkers)

NextMove ==
    \/ ReadFrom(MoveAlphabet, MoveLines)
    \/ \E w \in Workers : WorkerCheck(w)
    \/ \E w \in Workers : WorkerGet(w)
    \/ \E w \in Workers : ProcessEnter(w)
    \/ \E w \in Workers : MoveAcquire(w)
    \/ \E w \in Workers : MoveStart(w)
    \/ \E w \in Workers : MoveWait(w)
    \/ \E w \in Workers : MoveReacquire(w)
    \/ \E w \in Workers : MoveEnd(w)
    \/ \E w \in Workers : StopAcquire(w)
    \/ \E w \in Workers : StopRun(w)
    \/ \E w \in Workers : ProcessFinally(w)
    \/ \E w \in Workers : WorkerPut(w)

SpecMove == InitMove /\ [][NextMove]_vars


(***************************************************************************)
(* The worker pool on the two sensor commands alone, without shutdown.     *)
(***************************************************************************)
InitBus == InitWith(BusWorkers)

NextBus ==
    \/ ReadFrom(BusAlphabet, BusLines)
    \/ \E w \in Workers : WorkerCheck(w)
    \/ \E w \in Workers : WorkerGet(w)
    \/ \E w \in Workers : ProcessEnter(w)
    \/ \E w \in Workers : ColorAcquire(w)
    \/ \E w \in Workers : ColorBusAcquire(w)
    \/ \E w \in Workers : ColorWrite(w)
    \/ \E w \in Workers : ColorWait(w)
    \/ \E w \in Workers : ColorBusReacquire(w)
    \/ \E w \in Workers : ColorRead(w)
    \/ \E w \in Workers : DistAcquire(w)
    \/ \E w \in Workers : DistWrite(w)
    \/ \E w \in Workers : DistRead(w)
    \/ \E w \in Workers : ProcessFinally(w)
    \/ \E w \in Workers : WorkerPut(w)

SpecBus == InitBus /\ [][NextBus]_vars

(***************************************************************************)
(* The worker pool on the commands that take a lock, without shutdown.     *)
(***************************************************************************)
InitLocks == InitWith(LockWorkers)

NextLocks ==
    \/ ReadFrom(LockAlphabet, LockLines)
    \/ \E w \in Workers : WorkerCheck(w)
    \/ \E w \in Workers : WorkerGet(w)
    \/ \E w \in Workers : ProcessEnter(w)
    \/ \E w \in Workers : MoveAcquire(w)
    \/ \E w \in Workers : MoveStart(w)
    \/ \E w \in Workers : MoveWait(w)
    \/ \E w \in Workers : MoveReacquire(w)
    \/ \E w \in Workers : MoveEnd(w)
    \/ \E w \in Workers : ColorAcquire(w)
    \/ \E w \in Workers : ColorBusAcquire(w)
    \/ \E w \in Workers : ColorWrite(w)
    \/ \E w \in Workers : ColorWait(w)
    \/ \E w \in Workers : ColorBusReacquire(w)
    \/ \E w \in Workers : ColorRead(w)
    \/ \E w \in Workers : DistAcquire(w)
    \/ \E w \in Workers : DistWrite(w)
    \/ \E w \in Workers : DistRead(w)
    \/ \E w \in Workers : ProcessFinally(w)
    \/ \E w \in Workers : WorkerPut(w)

SpecLocks == InitLocks /\ [][NextLocks]_vars

(***************************************************************************)
(* The worker pool on every kind of command line, without shutdown.        *)
(***************************************************************************)
InitProc == InitWith(ProcWorkers)

NextProc ==
    \/ ReadFrom(ProcAlphabet, ProcLines)
    \/ \E w \in Workers : WorkerCheck(w)
    \/ \E w \in Workers : WorkerGet(w)
    \/ \E w \in Workers : ProcessEnter(w)
    \/ \E w \in Workers : MoveAcquire(w)
    \/ \E w \in Workers : MoveStart(w)
    \/ \E w \in Workers : MoveWait(w)
    \/ \E w \in Workers : MoveReacquire(w)
    \/ \E w \in Workers : MoveEnd(w)
    \/ \E w \in Workers : StopAcquire(w)
    \/ \E w \in Workers : StopRun(w)
    \/ \E w \in Workers : ColorAcquire(w)
    \/ \E w \in Workers : ColorBusAcquire(w)
    \/ \E w \in Workers : ColorWrite(w)
    \/ \E w \in Workers : ColorWait(w)
    \/ \E w \in Workers : ColorBusReacquire(w)
    \/ \E w \in Workers : ColorRead(w)
    \/ \E w \in Workers : DistAcquire(w)
    \/ \E w \in Workers : DistWrite(w)
    \/ \E w \in Workers : DistRead(w)
    \/ \E w \in Workers : LightEye(w)
    \/ \E w \in Workers : ProcessFinally(w)
    \/ \E w \in Workers : WorkerPut(w)

SpecProc == InitProc /\ [][NextProc]_vars

(***************************************************************************)
(* The whole program: main, the workers, the output thread and close.      *)
(***************************************************************************)
Init == InitWith(SysWorkers)

Next ==
    \/ ReadFrom(SysAlphabet, SysLines)
    \/ Terminate
    \/ CloseLoop
    \/ CloseRelease
    \/ Join
    \/ OutCheck
    \/ OutGet
    \/ \E w \in Workers : WorkerCheck(w)
    \/ \E w \in Workers : WorkerGet(w)
    \/ \E w \in Workers : ProcessEnter(w)
    \/ \E w \in Workers : MoveAcquire(w)
    \/ \E w \in Workers : MoveStart(w)
    \/ \E w \in Workers : MoveWait(w)
    \/ \E w \in Workers : MoveReacquire(w)
    \/ \E w \in Workers : MoveEnd(w)
    \/ \E w \in Workers : ColorAcquire(w)
    \/ \E w \in Workers : ColorBusAcquire(w)
    \/ \E w \in Workers : ColorWrite(w)
    \/ \E w \in Workers : ColorWait(w)
    \/ \E w \in Workers : ColorBusReacquire(w)
    \/ \E w \in Workers : ColorRead(w)
    \/ \E w \in Workers : LightEye(w)
    \/ \E w \in Workers : ProcessFinally(w)
    \/ \E w \in Workers : WorkerPut(w)

Spec == Init /\ [][Next]_vars

(***************************************************************************)
(* Claims on Move and Stop, checked under SpecMove.                        *)
(***************************************************************************)
\* A step of w that leaves its second critical section.
LeavesMoveEnd(w) == pc[w] = "mv_end" /\ pc'[w] # "mv_end"

\* A step of w that leaves the critical section of a Stop or the first one of a Move.
LeavesFirstSection(w) ==
    \/ pc[w] = "mv_start" /\ pc'[w] # "mv_start"
    \/ pc[w] = "stop_run" /\ pc'[w] # "stop_run"

\* C1: a Move handler that finds, back under the move lock after its wait, a
\* counter different from the value it captured leaves the motor as it is; the
\* motor is only ever commanded by the handler that holds the latest value of
\* the counter, so the generation that last commanded the motor never goes back.
C1_StaleMoveLeavesMotor ==
    [][/\ \A w \in Workers :
             (LeavesMoveEnd(w) /\ num_moved[w] # num_times_moved) => motor' = motor
       /\ (motor' # motor) => motor_gen' = num_times_moved'
       /\ motor_gen' >= motor_gen]_vars

\* Witness of C1: a Move superseded by a later Move has come back from its wait and
\* returned success while the later Move's motor state stands.
C1_Witness ==
    \E w \in Workers :
        /\ pc[w] = "finally"
        /\ resp[w].success
        /\ num_moved[w] >= 1
        /\ num_moved[w] < num_times_moved
        /\ last_gen_op = "move"
        /\ motor.pwm > 0
        /\ motor_gen = num_times_moved

C10_GenerationCounter ==
    [][/\ num_times_moved' >= num_times_moved
       /\ (num_times_moved' # num_times_moved) =>
             \E w \in Workers : move_lock = w /\ LeavesFirstSection(w)
       /\ \A w \in Workers :
             LeavesFirstSection(w) =>
                 /\ move_lock = w
                 /\ num_times_moved' = num_times_moved + 1
                 /\ (motor' # motor \/ motor_gen' # motor_gen) =>
                        motor_gen' = num_times_moved + 1
       /\ \A w \in Workers :
             LeavesMoveEnd(w) => move_lock = w /\ num_times_moved' = num_times_moved]_vars

\* Witness of C10: two commands have incremented the counter and a Move handler is
\* back under the move lock about to compare its captured value.
C10_Witness ==
    \E w \in Workers :
        /\ num_times_moved = 2
        /\ pc[w] = "mv_end"
        /\ move_lock = w
        /\ num_moved[w] = 1

(***************************************************************************)
(* Claims on the bus, checked under SpecBus.                               *)
(***************************************************************************)
BusSections == {"dc_write", "dc_read", "md_write", "md_read"}

\* A step of v that is a bus write or read of DetectColor, of MeasureDistance.
ColorBusOp(v) == pc[v] \in {"dc_write", "dc_read"} /\ pc'[v] # pc[v]
DistBusOp(v) == pc[v] \in {"md_write", "md_read"} /\ pc'[v] # pc[v]

\* w is past the write of its write/wait/read triplet and has not finished the read.
InColorTriplet(w) == pc[w] \in {"dc_wait", "dc_bus2", "dc_read"}
InDistTriplet(w) == pc[w] = "md_read"

\* C3 as stated: no bus write or read of MeasureDistance falls between the write,
\* the wait and the read of a DetectColor, and none of DetectColor falls between
\* the write, the settle delay and the read of a MeasureDistance.
C3_NoInterleaving ==
    [][\A v, w \in Workers :
          /\ DistBusOp(v) => ~InColorTriplet(w)
          /\ ColorBusOp(v) => ~InDistTriplet(w)]_vars

\* C3 amended: every bus write or read is made by the holder of the bus lock while
\* no other handler is inside a bus-locked section, so nothing falls inside the
\* write/settle/read of a MeasureDistance, inside the write burst of a DetectColor
\* or inside its block read; the exposure wait of DetectColor is outside the lock
\* and a MeasureDistance may run during it.
C3_BusSectionsExclusive ==
    [][\A v \in Workers :
          (DistBusOp(v) \/ ColorBusOp(v)) =>
              /\ i2c_lock = v
              /\ \A w \in Workers \ {v} : pc[w] \notin BusSections]_vars

\* Witness of C3: a MeasureDistance has made its write under the bus lock while a
\* DetectColor is between its write burst and its read.
C3_Witness ==
    \E v, w \in Workers :
        /\ pc[v] = "md_read"
        /\ i2c_lock = v
        /\ pc[w] \in {"dc_wait", "dc_bus2"}
        /\ color_sensor_lock = w

(***************************************************************************)
(* Claims on the locks, checked under SpecLocks.                           *)
(***************************************************************************)
ColorSection == {"dc_bus", "dc_write", "dc_wait", "dc_bus2", "dc_read"}
MoveSections == {"mv_start", "mv_end", "stop_run"}

\* The lock w is about to acquire ("none": w is not at an acquire).
Wants(w) ==
    CASE pc[w] \in {"mv_lock", "mv_lock2", "stop_lock"} -> "move"
      [] pc[w] = "dc_lock" -> "color"
      [] pc[w] \in {"dc_bus", "dc_bus2", "md_lock"} -> "bus"
      [] OTHER -> "none"

Holder(lock) ==
    CASE lock = "move" -> move_lock
      [] lock = "color" -> color_sensor_lock
      [] lock = "bus" -> i2c_lock
      [] OTHER -> 0

Blocked(w) == Holder(Wants(w)) # 0

\* C9: the bus lock is held only inside the short write and read sections, whose
\* holder waits for no lock; the color lock is taken before the bus lock and held
\* for the whole of DetectColor; the move lock is held only inside the sections of
\* Move and Stop, never together with another lock; a worker waiting for a lock
\* waits for a holder that is not itself waiting, or that waits for the bus lock
\* whose holder is not waiting: no set of workers waits in a cycle.
C9_LockOrder ==
    /\ \A w \in Workers :
          /\ i2c_lock = w => pc[w] \in BusSections
          /\ move_lock = w => pc[w] \in MoveSections
          /\ color_sensor_lock = w <=> pc[w] \in ColorSection
          /\ move_lock = w => (i2c_lock # w /\ color_sensor_lock # w)
    /\ \A w \in Workers :
          Blocked(w) =>
              LET h == Holder(Wants(w))
              IN  /\ h \in Workers \ {w}
                  /\ \/ ~Blocked(h)
                     \/ /\ Wants(h) = "bus"
                        /\ Holder("bus") \in Workers \ {h}
                        /\ ~Blocked(Holder("bus"))

\* Witness of C9: a DetectColor holding the color lock waits for the bus lock, which
\* a MeasureDistance holds inside its write/settle/read.
C9_Witness ==
    \E v, w \in Workers :
        /\ pc[w] = "dc_bus2"
        /\ color_sensor_lock = w
        /\ i2c_lock = v
        /\ pc[v] = "md_read"

(***************************************************************************)
(* Claims on the handlers, checked under SpecProc.                         *)
(***************************************************************************)
Opcodes == {"detect-color", "move", "measure-distance", "light-eye"}

\* A command with no handler, or one of a handler that takes parameters and has none.
Unanswerable(cmd) ==
    \/ cmd.opcode \notin Opcodes
    \/ cmd.opcode # "measure-distance" /\ cmd.params = <<>>

\* C6: no exception leaves process; the response a worker is about to put carries
\* the sequence_id and the opcode of the command it holds, the command is out of
\* the registry, and a command that took a failure path (no handler, an exception
\* in parsing, in a wait or in a hardware call) has success = False and no data.
C6_EveryPathResponds ==
    \A w \in Workers :
        /\ pc[w] # "raised"
        /\ pc[w] = "put" =>
              /\ resp[w].uid = cur[w].uid
              /\ resp[w].cmd_no = cur[w].cmd_no
              /\ resp[w].opcode = cur[w].opcode
              /\ cur[w].uid \notin activeCmds
              /\ Unanswerable(cur[w]) => failure[w]
              /\ failure[w] => (~resp[w].success /\ resp[w].data = <<>>)

\* Witness of C6: a well-formed Move whose motor driver raised is answered with a
\* failure, and the registry is empty again.
C6_Witness ==
    \E w \in Workers :
        /\ pc[w] = "put"
        /\ cur[w].line = LineFwd
        /\ failure[w]
        /\ ~resp[w].success
        /\ activeCmds = {}

(***************************************************************************)
(* Claims on the whole program, checked under Spec.                        *)
(***************************************************************************)
\* C4 as stated: the step in which CmdProcessor.close turns the lamps off and closes
\* the bus leaves every lamp of both eyes off.
C4_LampsOffAfterClose ==
    [][(pcMain = "release" /\ pcMain' = "join") =>
          (right_eye' = EyeOff /\ left_eye' = EyeOff)]_vars

\* The places a command line read as uid is at: the inbound queue, a worker, the
\* outbound queue.
Pending(uid) ==
    Cardinality({i \in DOMAIN cmd_fifo : cmd_fifo[i].uid = uid})
    + Cardinality({w \in Workers : cur[w].uid = uid})
    + Cardinality({i \in DOMAIN resp_fifo : resp_fifo[i].uid = uid})

\* C5 as stated: when the program has ended, every command line read has exactly
\* one response line on the output, echoing its sequence_id and opcode.
C5_ExactlyOneResponse ==
    pcMain = "done" =>
        /\ stdout_other = 0
        /\ \A uid \in 1..num_read : stdout_echo[uid] = 1

\* C5 amended: every line written echoes the sequence_id and the opcode of a
\* command line read; a command line read is either still on its way (queued,
\* held by a worker, or answered and not yet written) or has exactly one response
\* line, never more; what is still on its way when the termination flag is seen
\* is not written.
C5_AtMostOneResponse ==
    /\ stdout_other = 0
    /\ DOMAIN stdout_echo = 1..num_read
    /\ \A uid \in 1..num_read : Pending(uid) + stdout_echo[uid] = 1

\* Witness of C5: the program has ended with one response line for every command
\* line read.
C5_Witness ==
    /\ pcMain = "done"
    /\ num_read >= 1
    /\ \A uid \in 1..num_read : stdout_echo[uid] = 1

\* A worker holds a command whose response is not produced yet.
Processing(w) == cur[w] # NoCmd /\ pc[w] # "put"

\* C7 as stated: a command a worker has received and not finished processing is in
\* the registry, so an empty registry means that no worker holds such a command.
C7_RegistryHoldsReceived ==
    /\ \A w \in Workers : Processing(w) => cur[w].uid \in activeCmds
    /\ activeCmds = {} => \A w \in Workers : ~Processing(w)

\* C8 as stated: once close has left its cancelling loop, a worker in the wait of a
\* Move or of a DetectColor has had its event set by close or by a later command.
C8_ShutdownWakesWaiters ==
    pcMain \in {"release", "join", "done"} =>
        \A w \in Workers : pc[w] \in {"mv_wait", "dc_wait"} => cur[w].uid \in signaled

(***************************************************************************)
(* Claims on the handlers' locks, checked under SpecProc.                  *)
(***************************************************************************)
\* The positions of a worker outside every handler.
OutsideHandler == {"loop", "get", "process", "finally", "put", "exit"}

HoldsNoLock(w) == i2c_lock # w /\ move_lock # w /\ color_sensor_lock # w

\* C11: a worker whose handler has returned, by any path (a response of success, a
\* parse error, a bus or motor call that raised, a wait that raised), holds none of
\* the bus lock, the move lock and the color lock; with every worker outside its
\* handler the three locks are free for the next command.
C11_LocksReleasedOnReturn ==
    /\ \A w \in Workers : pc[w] \in OutsideHandler => HoldsNoLock(w)
    /\ (\A w \in Workers : pc[w] \in OutsideHandler) =>
           (i2c_lock = 0 /\ move_lock = 0 /\ color_sensor_lock = 0)

\* Witness of C11: a DetectColor with a well-formed exposure time has returned a
\* failure after a bus call raised, and the three locks are free.
C11_Witness ==
    \E w \in Workers :
        /\ pc[w] = "finally"
        /\ cur[w].line = LineColor
        /\ failure[w]
        /\ i2c_lock = 0 /\ move_lock = 0 /\ color_sensor_lock = 0

(***************************************************************************)
(* Claims on the waits, checked under SpecLocks.                           *)
(***************************************************************************)
\* C12: a handler in the duration wait of a Move or in the exposure wait of a
\* DetectColor holds neither the move lock nor the bus lock; whoever holds one of
\* the two is inside a critical section, not in a wait or at an acquire, so a
\* command on another worker gets the lock after that section.
C12_WaitsOutsideLocks ==
    /\ \A w \in Workers :
          pc[w] \in {"mv_wait", "dc_wait"} => (move_lock # w /\ i2c_lock # w)
    /\ move_lock # 0 => pc[move_lock] \in MoveSections
    /\ i2c_lock # 0 => pc[i2c_lock] \in BusSections

\* Witness of C12: while a Move waits out its duration, a newer Move on another
\* worker has taken the move lock.
C12_Witness ==
    \E v, w \in Workers :
        /\ pc[w] = "mv_wait"
        /\ cur[w].uid \notin signaled
        /\ move_lock = v
        /\ pc[v] = "mv_start"

(***************************************************************************)
(* The whole program on Move commands, with fair scheduling: as long as    *)
(* close, the output thread or a worker can take a step, one of them does. *)
(* Reading the input and starting the shutdown are left to the             *)
(* environment.                                                            *)
(***************************************************************************)
InitShut == InitWith(ShutWorkers)

\* A step of close, of the output thread, of worker w.
CloseStep == CloseLoop \/ CloseRelease \/ Join
OutStep == OutCheck \/ OutGet
WorkerStep(w) ==
    \/ WorkerCheck(w) \/ WorkerGet(w) \/ ProcessEnter(w)
    \/ MoveAcquire(w) \/ MoveStart(w) \/ MoveWait(w) \/ MoveReacquire(w) \/ MoveEnd(w)
    \/ ProcessFinally(w) \/ WorkerPut(w)

NextShut ==
    \/ ReadFrom(ShutAlphabet, ShutLines)
    \/ Terminate
    \/ CloseLoop
    \/ CloseRelease
    \/ Join
    \/ OutCheck
    \/ OutGet
    \/ \E w \in Workers : WorkerCheck(w)
    \/ \E w \in Workers : WorkerGet(w)
    \/ \E w \in Workers : ProcessEnter(w)
    \/ \E w \in Workers : MoveAcquire(w)
    \/ \E w \in Workers : MoveStart(w)
    \/ \E w \in Workers : MoveWait(w)
    \/ \E w \in Workers : MoveReacquire(w)
    \/ \E w \in Workers : MoveEnd(w)
    \/ \E w \in Workers : ProcessFinally(w)
    \/ \E w \in Workers : WorkerPut(w)

SpecShut ==
    /\ InitShut /\ [][NextShut]_vars
    /\ WF_vars(CloseStep \/ OutStep \/ \E w \in 1..ShutWorkers : WorkerStep(w))

\* C13: once the termination flag is set, the program reaches the end of close():
\* every worker and the output thread have left their loops and the wait on their
\* futures has returned.
C13_ShutdownCompletes ==
    is_terminated ~>
        (/\ pcMain = "done"
         /\ pcOut = "exit"
         /\ \A w \in Workers : pc[w] = "exit")

\* Witness of C13: close() has returned after its loop cancelled the wait of a
\* command that was in flight when the shutdown started.
C13_Witness ==
    /\ pcMain = "done"
    /\ count > 0
    /\ signaled # {}
    /\ pcOut = "exit"
    /\ \A w \in Workers : pc[w] = "exit"

(***************************************************************************)
(* Claims on the exposure time, checked under SpecProc.                    *)
(***************************************************************************)
\* C14 as stated: the exposure wait of a DetectColor that has passed it was given
\* the timeout 4 x clamp(exposure, 0, 11) x 1.05, never more than that of an
\* 11-second exposure, and the register holds the value of the same clamped time.
C14_WaitUsesClampedExposure ==
    \A w \in Workers :
        /\ exp_wait[w] <= 42 * max_exp_time * 10
        /\ pc[w] \in {"dc_bus2", "dc_read"} =>
              /\ exp_wait[w] = 42 * clamped(float(cur[w].params[1]))
              /\ integ_reg = integ_val(float(cur[w].params[1]))

(***************************************************************************)
(* Claims on the move event, checked under SpecMove.                       *)
(***************************************************************************)
\* The Move handlers blocked in their wait on an event that is not set.
UnsignaledWaiters == {w \in Workers : pc[w] = "mv_wait" /\ cur[w].uid \notin signaled}

\* C15: at most one Move handler waits on an event that is not set, and that event
\* is the installed one; a Move that commands the motor sets the event installed
\* before it and installs its own in the step, under the move lock, in which it
\* increments the counter.
C15_OneOutstandingEvent ==
    /\ [](/\ Cardinality(UnsignaledWaiters) <= 1
          /\ \A w \in UnsignaledWaiters : move_event = cur[w].uid)
    /\ [][\A w \in Workers :
             (pc[w] = "mv_start" /\ pc'[w] = "mv_wait") =>
                 /\ move_lock = w
                 /\ num_times_moved' = num_times_moved + 1
                 /\ move_event # 0 => move_event \in signaled'
                 /\ move_event' = cur[w].uid]_vars

\* Witness of C15: two Move handlers are in their wait, the older one on an event
\* the newer one has set, the newer one on the installed event, not set.
C15_Witness ==
    \E v, w \in Workers :
        /\ pc[v] = "mv_wait" /\ pc[w] = "mv_wait"
        /\ cur[v].uid \in signaled
        /\ cur[w].uid \notin signaled
        /\ move_event = cur[w].uid

(***************************************************************************)
(* Claims on a cancelled DetectColor, checked under Spec.                  *)
(***************************************************************************)
\* w is a DetectColor whose event has been set.
Cancelled(w) == cur[w].opcode = "detect-color" /\ cur[w].uid \in signaled

\* C16: a DetectColor whose event has been set leaves its wait for the second
\* acquisition of the bus lock, not for its return; from there it takes the bus lock
\* and makes the block read; it returns success with three values when the read
\* succeeds and failure when the read raises.
C16_CancelledDetectColorReads ==
    [][\A w \in Workers :
          (Cancelled(w) /\ pc'[w] # pc[w]) =>
              /\ pc[w] = "dc_wait" => pc'[w] = "dc_bus2"
              /\ pc[w] = "dc_bus2" => (pc'[w] = "dc_read" /\ i2c_lock' = w)
              /\ pc[w] = "dc_read" =>
                    /\ pc'[w] = "finally"
                    /\ \/ resp'[w].success /\ Len(resp'[w].data) = 3
                       \/ ~resp'[w].success /\ failure'[w]]_vars

\* Witness of C16: a DetectColor whose wait the shutdown cancelled has made its read
\* and returned success with three values.
C16_Witness ==
    \E w \in Workers :
        /\ is_terminated
        /\ Cancelled(w)
        /\ pc[w] = "finally"
        /\ resp[w].success
        /\ Len(resp[w].data) = 3

(***************************************************************************)
(* Claims on the eye lamps, checked under SpecProc.                        *)
(***************************************************************************)
\* The lamp states the flags of a light-eye line ask for: a lamp is on for a flag
\* other than 0.
AskedFlags(cmd) ==
    [red |-> cmd.params[2] # "0", green |-> cmd.params[3] # "0", blue |-> cmd.params[4] # "0"]

\* The flags of a light-eye line are three integers.
FlagsParse(cmd) ==
    /\ Len(cmd.params) >= 4
    /\ \A i \in 2..4 : cmd.params[i] \in {"0", "1", "2"}

\* C17: a LightEye that answers success has set exactly the lamps its eye selector
\* names to its flags ('left': the left ones, the right ones as they were; 'right':
\* the right ones, the left ones as they were; 'both': all); one whose flags do not
\* parse answers failure and changes no lamp; no other step changes a lamp.
C17_LightEyeFrame ==
    [][/\ \A w \in Workers :
             (pc[w] = "le" /\ pc'[w] # "le") =>
                 LET cmd == cur[w]
                     eye == IF cmd.params = <<>> THEN "" ELSE cmd.params[1]
                 IN  /\ ~FlagsParse(cmd) =>
                            (~resp'[w].success /\ left_eye' = left_eye /\ right_eye' = right_eye)
                     /\ (resp'[w].success /\ eye = "left") =>
                            (left_eye' = AskedFlags(cmd) /\ right_eye' = right_eye)
                     /\ (resp'[w].success /\ eye = "right") =>
                            (right_eye' = AskedFlags(cmd) /\ left_eye' = left_eye)
                     /\ (resp'[w].success /\ eye = "both") =>
                            (left_eye' = AskedFlags(cmd) /\ right_eye' = AskedFlags(cmd))
       /\ (left_eye' # left_eye \/ right_eye' # right_eye) =>
             \E w \in Workers : pc[w] = "le" /\ pc'[w] # "le"]_vars

\* Witness of C17: a LightEye on the left eye has answered success; the left lamps
\* show its flags and the right lamps are as they were.
C17_Witness ==
    \E w \in Workers :
        /\ pc[w] = "finally"
        /\ cur[w].line = LineLightLeft
        /\ resp[w].success
        /\ left_eye = [red |-> TRUE, green |-> FALSE, blue |-> TRUE]
        /\ right_eye = EyeOff

(***************************************************************************)
(* Two workers on Move, Stop, a Move that does not parse and a line with   *)
(* no handler: every way a command leaves a worker.                        *)
(***************************************************************************)
InitResp == InitWith(RespWorkers)

NextResp ==
    \/ ReadFrom(RespAlphabet, RespLines)
    \/ \E w \in Workers : WorkerCheck(w)
    \/ \E w \in Workers : WorkerGet(w)
    \/ \E w \in Workers : ProcessEnter(w)
    \/ \E w \in Workers : MoveAcquire(w)
    \/ \E w \in Workers : MoveStart(w)
    \/ \E w \in Workers : MoveWait(w)
    \/ \E w \in Workers : MoveReacquire(w)
    \/ \E w \in Workers : MoveEnd(w)
    \/ \E w \in Workers : StopAcquire(w)
    \/ \E w \in Workers : StopRun(w)
    \/ \E w \in Workers : ProcessFinally(w)
    \/ \E w \in Workers : WorkerPut(w)

SpecResp == InitResp /\ [][NextResp]_vars

\* The response r answers the command cmd.
Answers(r, cmd) == r.uid = cmd.uid /\ r.cmd_no = cmd.cmd_no /\ r.opcode = cmd.opcode

\* C18: a worker takes a command only from the head of the inbound queue; the
\* command leaves the worker only in a step that appends one response with its
\* sequence_id and opcode to the outbound queue; the outbound queue grows only in
\* such a step; a worker never stops (returns from its loop, or dies of an
\* exception) while it holds a command.
C18_OneResponsePerReceived ==
    [][/\ \A w \in Workers :
             /\ (cur[w] = NoCmd /\ cur'[w] # NoCmd) =>
                    (cmd_fifo # <<>> /\ cur'[w] = Head(cmd_fifo) /\ cmd_fifo' = Tail(cmd_fifo))
             /\ (cur[w] # NoCmd /\ cur'[w] # cur[w]) =>
                    /\ cur'[w] = NoCmd
                    /\ Len(resp_fifo') = Len(resp_fifo) + 1
                    /\ SubSeq(resp_fifo', 1, Len(resp_fifo)) = resp_fifo
                    /\ Answers(resp_fifo'[Len(resp_fifo')], cur[w])
             /\ pc'[w] \in {"exit", "raised"} => cur[w] = NoCmd
       /\ Len(resp_fifo') > Len(resp_fifo) =>
             Cardinality({w \in Workers : cur[w] # NoCmd /\ cur'[w] = NoCmd}) = 1]_vars

\* Witness of C18: two commands were received and both are answered in the outbound
\* queue, the first a Move whose wait a later command cancelled, the second one
\* that failed.
C18_Witness ==
    /\ Len(resp_fifo) = 2
    /\ \A w \in Workers : cur[w] = NoCmd
    /\ 1 \in signaled
    /\ \E i, j \in 1..2 :
          /\ resp_fifo[i].uid = 1 /\ resp_fifo[i].success /\ resp_fifo[i].opcode = "move"
          /\ resp_fifo[j].uid = 2 /\ ~resp_fifo[j].success

(***************************************************************************)
(* Claims on the motor at rest, checked under SpecProc.                    *)
(***************************************************************************)
\* w is between its motor command and the end of its check of the counter after
\* the wait.
MoveInFlight(w) == pc[w] \in {"mv_wait", "mv_lock2", "mv_end"}

\* C19 as stated: when no Move is between its motor command and the end of its
\* check after the wait, and no call of the motor driver has raised, the motor is
\* stopped.
C19_MotorStoppedAtRest ==
    (~driver_raised /\ \A w \in Workers : ~MoveInFlight(w)) => motor.pwm = 0

(***************************************************************************)
(* Claims on the hardware after shutdown, checked under Spec.              *)
(***************************************************************************)
\* A step of w that commands the motor.
MotorOp(w) ==
    /\ pc'[w] # pc[w]
    /\ \/ pc[w] \in {"mv_start", "stop_run"}
       \/ pc[w] = "mv_end" /\ OwnsTerminalStop(w)

\* A step of w that commands the lamps of an eye.
LampOp(w) == pc[w] = "le" /\ pc'[w] # pc[w] /\ LightParseOk(cur[w])

\* A step of w that enters process with a received command.
BeginsProcessing(w) == pc[w] = "process" /\ pc'[w] # pc[w]

\* C20 as stated: once CmdProcessor.close has turned the lamps off and released the
\* bus handle, no worker makes a bus write or read, commands the motor or a lamp,
\* or begins to process a command.
C20_NoHardwareAfterRelease ==
    [][~i2c_open =>
          \A w \in Workers :
              /\ ~ColorBusOp(w)
              /\ ~DistBusOp(w)
              /\ ~MotorOp(w)
              /\ ~LampOp(w)
              /\ ~BeginsProcessing(w)]_vars

=============================================================================
